---- MODULE Spec2Model ----
(***************************************************************************)
(* A model of fb-messenger-es6: the webhook signature verifier             *)
(* (src/client/validateSignature.js) and the platform client (Client).     *)
(*                                                                         *)
(* JavaScript strings are sequences of one-character strings; a JavaScript *)
(* value is a record [t, v]: t is "undefined", "null", "string", "array" or *)
(* the name of the object's constructor, v the pieces of a string, the     *)
(* elements of an array, or the keys and values of an object in turn.      *)
(* Strings of the verifier are split into characters, strings of the       *)
(* client into the pieces its templates concatenate. Byte buffers are      *)
(* sequences of bits. Thrown errors are records [name, message].           *)
(***************************************************************************)
EXTENDS Integers, Sequences, FiniteSets, Bags, TLC

(***************************************************************************)
(* Bounds of the model.                                                    *)
(***************************************************************************)
\* longest request body, in bits
MaxBodyLen == 1
\* hex digits of the modelled SHA-1 digest (40 in Node)
Sha1HexLen == 2
\* hex digits of the modelled SHA-256 digest (64 in Node)
Sha256HexLen == 3
\* client calls whose request awaits its response at one time
MaxInFlight == 2

(***************************************************************************)
(* JavaScript values.                                                      *)
(***************************************************************************)
Undefined == [t |-> "undefined", v |-> <<>>]
Null == [t |-> "null", v |-> <<>>]
Str(s) == [t |-> "string", v |-> s]
\* the slot of a `new ValidateSignature(...)` that produced no object
NoInstance == [t |-> "none", v |-> <<>>]
\* the argument of a constructor that has not run
NotCalled == [t |-> "notcalled", v |-> <<>>]

\* !x of JavaScript, for x undefined, null or a string
Falsy(x) == x.t \in {"undefined", "null"} \/ (x.t = "string" /\ x.v = <<>>)

NoError == [name |-> "none", message |-> "none"]
\* validate.notNull's error: the spec's ConfigurationError
ConfigurationError(field) == [name |-> "ConfigurationError", message |-> field]
\* new Error('Invalid signature'): the spec's InvalidSignatureError
InvalidSignatureError == [name |-> "Error", message |-> "Invalid signature"]
\* evaluating the undeclared identifier `log` in an ES module
LogReferenceError == [name |-> "ReferenceError", message |-> "log is not defined"]
\* crypto.createHmac with a key that is no string, Buffer or KeyObject
KeyTypeError == [name |-> "TypeError", message |-> "ERR_INVALID_ARG_TYPE key"]

(***************************************************************************)
(* util/validate                                                           *)
(***************************************************************************)
\* validate.notNull(value, field, where): the error it throws, or NoError
notNull(value, field) ==
    IF Falsy(value) THEN ConfigurationError(field) ELSE NoError

(***************************************************************************)
(* crypto: a keyed digest of `bits` hex digits. The model keeps what the   *)
(* verifier relies on: the digest is a function of (algorithm, key, body), *)
(* rendered as fixed-width lowercase hexadecimal.                          *)
(***************************************************************************)
HexDigits == <<"0", "1", "2", "3", "4", "5", "6", "7",
               "8", "9", "a", "b", "c", "d", "e", "f">>

RECURSIVE Pow16(_)
Pow16(n) == IF n = 0 THEN 1 ELSE 16 * Pow16(n - 1)

HexLen(algo) == IF algo = "sha1" THEN Sha1HexLen ELSE Sha256HexLen
AlgoSeed(algo) == IF algo = "sha1" THEN 7 ELSE 11
AlgoName(algo) ==
    IF algo = "sha1" THEN <<"s", "h", "a", "1">>
    ELSE <<"s", "h", "a", "2", "5", "6">>

CharCode(c) == IF c = "a" THEN 1 ELSE IF c = "b" THEN 2 ELSE 3

RECURSIVE AbsorbKey(_, _, _)
AbsorbKey(h, key, m) ==
    IF key = <<>> THEN h
    ELSE AbsorbKey((h * 37 + CharCode(Head(key)) * 11) % m, Tail(key), m)

RECURSIVE AbsorbBody(_, _, _)
AbsorbBody(h, body, m) ==
    IF body = <<>> THEN h
    ELSE AbsorbBody((h * 29 + 5 * Head(body) + 3) % m, Tail(body), m)

\* hmac.update(buffer).digest(): the digest as a number below 16^HexLen
Hmac(algo, key, body) ==
    LET m == Pow16(HexLen(algo))
    IN  AbsorbBody(AbsorbKey(AlgoSeed(algo), key, m), body, m)

RECURSIVE ToHex(_, _)
\* digest('hex'): n as `len` lowercase hex digits
ToHex(n, len) ==
    IF len = 0 THEN <<>>
    ELSE Append(ToHex(n \div 16, len - 1), HexDigits[(n % 16) + 1])

HexDigest(algo, key, body) == ToHex(Hmac(algo, key, body), HexLen(algo))

\* `${algo}=${hmac.digest('hex')}`
SignatureFor(algo, key, body) ==
    AlgoName(algo) \o <<"=">> \o HexDigest(algo, key, body)

(***************************************************************************)
(* Inputs of the verifier.                                                 *)
(***************************************************************************)
Verifiers == {"v1", "v2"}

SecretStrings == {<<>>, <<"a">>, <<"a", "b">>}
\* the secrets each verifier is constructed with: an absent one, an empty
\* one, or the tenant's own
SecretArgs(v) ==
    {Undefined, Null, Str(<<>>),
     Str(IF v = "v1" THEN <<"a">> ELSE <<"a", "b">>)}

Bit == {0, 1}
Bodies == UNION {[1..n -> Bit] : n \in 0..MaxBodyLen}

\* the bodies that differ from b in exactly one bit
BitFlips(b) ==
    {[b EXCEPT ![i] = 1 - b[i]] : i \in 1..Len(b)}

HexValue(d) == CHOOSE i \in 0..15 : HexDigits[i + 1] = d
\* the hex digit whose value differs from d's in its lowest bit
FlipHexDigit(d) ==
    LET n == HexValue(d) IN HexDigits[(IF n % 2 = 0 THEN n + 1 ELSE n - 1) + 1]
\* the digests that differ from hex in exactly that bit of one digit
DigestFlips(hex) ==
    {[hex EXCEPT ![i] = FlipHexDigit(hex[i])] : i \in 1..Len(hex)}

\* the X-Hub-Signature values a request for body b to a verifier with secret
\* s is modelled to carry
Headers(s, b) ==
    {Undefined, Str(<<>>)}
    \cup {Str(SignatureFor("sha1", s, b)),
          Str(SignatureFor("sha256", s, b)),
          Str(HexDigest("sha1", s, b))}
    \cup {Str(AlgoName("sha1") \o <<"=">> \o d) :
            d \in DigestFlips(HexDigest("sha1", s, b))}
    \cup {Str(SignatureFor("sha1", s, c)) : c \in BitFlips(b)}
    \cup {Str(SignatureFor("sha1", k, b)) : k \in SecretStrings \ {<<>>}}

VARIABLES
    appSecret,      \* ValidateSignature: this.appSecret of each instance
    ctorArg,        \* the argument each `new ValidateSignature(...)` was given
    ctorThrown,     \* what each `new ValidateSignature(...)` threw
    first,          \* the first validate call that ran
    latest          \* the validate call that ran last

sigVars == <<appSecret, ctorArg, ctorThrown, first, latest>>

VARIABLES
    client,             \* whether `new Client(...)` has returned an instance
    baseURL,            \* Client: this.baseURL
    pageAccessToken,    \* Client: this.pageAccessToken
    proxyAgent,         \* Client: this.proxyAgent
    messenger_profile,  \* Client: this.messenger_profile
    clientArgs,         \* the token and version the instance was built with
    lastProxy,          \* the proxy most recently set by setProxy
    inflight,           \* the calls whose request awaits its response (a bag)
    last                \* the call that threw or settled last

clientVars == <<client, baseURL, pageAccessToken, proxyAgent, messenger_profile,
                clientArgs, lastProxy, inflight, last>>
vars == <<sigVars, clientVars>>

NoCall == [v |-> "none", header |-> Undefined, body |-> <<>>,
           key |-> NoInstance, result |-> NoError]

\* a secret kept in one module-level variable instead of on the instance
sharedAppSecret(v) ==
    appSecret[CHOOSE w \in Verifiers : appSecret[w] # NoInstance]

\* this.appSecret, read by validate
thisAppSecret(v) == appSecret[v]

\* a constructor that stores the secret without validating it
ConstructorNoCheck(v, secret) ==
    /\ ctorArg[v] = NotCalled
    /\ ctorArg' = [ctorArg EXCEPT ![v] = secret]
    /\ appSecret' = [appSecret EXCEPT ![v] = secret]
    /\ UNCHANGED <<ctorThrown, first, latest, clientVars>>

\* ValidateSignature.constructor
Constructor(v, secret) ==
    /\ ctorArg[v] = NotCalled
    /\ ctorArg' = [ctorArg EXCEPT ![v] = secret]
    /\ LET thrown == notNull(secret, "app secret")
       IN  /\ ctorThrown' = [ctorThrown EXCEPT ![v] = thrown]
           /\ appSecret' = IF thrown = NoError
                           THEN [appSecret EXCEPT ![v] = secret]
                           ELSE appSecret
    /\ UNCHANGED <<first, latest, clientVars>>

\* the computed signature, `sha1=${hmac.digest('hex')}`
Computed(secret, buffer) == Str(SignatureFor("sha1", secret.v, buffer))

\* the prefix of a header before its first "=": <<>> when it has none
AlgoPrefix(s) ==
    LET eqs == {i \in 1..Len(s) : s[i] = "="}
    IN  IF eqs = {} THEN <<>>
        ELSE SubSeq(s, 1, (CHOOSE i \in eqs : \A j \in eqs : i <= j) - 1)

\* a validate that only requires the header to be present
ValidateResultPresentOnly(secret, expected, buffer) ==
    IF secret.t # "string" THEN KeyTypeError
    ELSE IF Falsy(expected) THEN InvalidSignatureError
         ELSE LogReferenceError

\* a validate that keys the digest by the algorithm the header names
ValidateResultHeaderAlgo(secret, expected, buffer) ==
    LET algo == IF AlgoPrefix(expected.v) = AlgoName("sha256")
                THEN "sha256" ELSE "sha1"
    IN  IF secret.t # "string" THEN KeyTypeError
        ELSE IF Falsy(expected)
                \/ expected # Str(SignatureFor(algo, secret.v, buffer))
             THEN InvalidSignatureError
             ELSE LogReferenceError

\* what validate throws (NoError when it returns)
ValidateResult(secret, expected, buffer) ==
    IF secret.t # "string" THEN KeyTypeError
    ELSE IF Falsy(expected) \/ expected # Computed(secret, buffer)
         THEN InvalidSignatureError
         ELSE LogReferenceError

\* a validate whose test assigns (`=`) where it should compare
ValidateAssigns(v, expected, buffer) ==
    /\ appSecret[v] # NoInstance
    /\ latest' = [v |-> v, header |-> expected, body |-> buffer,
                  key |-> thisAppSecret(v),
                  result |-> ValidateResult(thisAppSecret(v), expected, buffer)]
    /\ first' = IF first = NoCall THEN latest' ELSE first
    /\ appSecret' = IF Falsy(expected) THEN appSecret
                    ELSE [appSecret EXCEPT ![v] = expected]
    /\ UNCHANGED <<ctorArg, ctorThrown, clientVars>>

\* ValidateSignature.validate
Validate(v, expected, buffer) ==
    /\ appSecret[v] # NoInstance
    /\ latest' = [v |-> v, header |-> expected, body |-> buffer,
                  key |-> thisAppSecret(v),
                  result |-> ValidateResult(thisAppSecret(v), expected, buffer)]
    /\ first' = IF first = NoCall THEN latest' ELSE first
    /\ UNCHANGED <<appSecret, ctorArg, ctorThrown, clientVars>>

(***************************************************************************)
(* The platform client.                                                    *)
(***************************************************************************)
facebookMessengerAPIURL == "https://graph.facebook.com"
userProfileFields ==
    <<"first_name", "last_name", "profile_pic", "locale", "timezone",
      "gender", "is_payment_enabled">>
validPlatformAPIVersions == {"v2.6", "v2.7", "v2.8"}

Range(seq) == {seq[i] : i \in 1..Len(seq)}

Arr(elems) == [t |-> "array", v |-> elems]
\* an object built by constructor `ctor`, kv its keys and values in turn
Obj(ctor, kv) == [t |-> ctor, v |-> kv]

\* Object.keys(o)
Keys(o) == [i \in 1..(Len(o.v) \div 2) |-> o.v[2 * i - 1]]
\* `${o[key]}`
Get(o, key) ==
    LET at == {i \in 1..(Len(o.v) \div 2) : o.v[2 * i - 1] = key}
    IN  IF at = {} THEN "undefined" ELSE o.v[2 * (CHOOSE i \in at : TRUE)]

RECURSIVE Join(_)
\* `${array}`: the elements joined by commas
Join(elems) ==
    IF elems = <<>> THEN <<>>
    ELSE IF Len(elems) = 1 THEN elems
    ELSE <<Head(elems), ",">> \o Join(Tail(elems))

RECURSIVE Members(_)
Members(kv) ==
    IF kv = <<>> THEN <<>>
    ELSE <<kv[1], ":", kv[2]>>
         \o (IF Len(kv) > 2 THEN <<",">> ELSE <<>>)
         \o Members(Tail(Tail(kv)))

\* JSON.stringify of an object of string members
Stringify(o) == <<"{">> \o Members(o.v) \o <<"}">>

\* errors thrown by util/validate other than notNull's
ValidationError(field) == [name |-> "Error", message |-> field]

\* validate.oneOf(value, list, field, where)
oneOf(value, list, field) ==
    IF value \in list THEN NoError ELSE ValidationError(field)

\* validate.isArray(value, field, where)
isArray(value, field) ==
    IF value.t = "array" THEN NoError ELSE ValidationError(field)

\* validate.required(object, keys, where)
required(object, keys) ==
    IF keys \subseteq Range(Keys(object)) THEN NoError
    ELSE ValidationError("required")

\* validate.null(value)
isNull(value) == value.t \in {"undefined", "null"}

\* the first error of a sequence of validations, in the order they run
RECURSIVE FirstError(_)
FirstError(errors) ==
    IF errors = <<>> THEN NoError
    ELSE IF Head(errors) # NoError THEN Head(errors)
    ELSE FirstError(Tail(errors))

\* MessengerProfile.validProperties()
validProperties ==
    {"persistent_menu", "get_started", "greeting", "whitelisted_domains",
     "account_linking_url", "payment_settings", "target_audience", "home_url"}

AttachmentNames ==
    {"ImageAttachment", "AudioAttachment", "VideoAttachment", "FileAttachment"}

\* message.getMessage(), message.forUpload().getMessage(), profile.toObject():
\* the plain object of the instance's members
getMessage(message) == Obj("Object", message.v)
toObject(profile) == Obj("Object", profile.v)

(***************************************************************************)
(* Requests, responses and the record of a call.                           *)
(***************************************************************************)
NoRequest == [url |-> <<>>, method |-> "none", body |-> Undefined,
              agent |-> Undefined]

NoRemoteError == [message |-> "none", type |-> "none", code |-> "none"]
\* the parsed body of a response: its `error` member (NoRemoteError when it
\* has none) and its `attachment_id` member
Item(error, attachment_id) == [error |-> error, attachment_id |-> attachment_id]
NoItem == Item(NoRemoteError, "none")

NoResponse == [kind |-> "none", message |-> "none", item |-> NoItem]
\* fetch() rejects: DNS failure, refused connection, timeout
FetchFailed(m) == [kind |-> "fetchFailed", message |-> m, item |-> NoItem]
\* fetch() resolves and resp.json() rejects: the body is no JSON
NotJSON(m) == [kind |-> "notJSON", message |-> m, item |-> NoItem]
\* fetch() and resp.json() resolve
JSON(item) == [kind |-> "json", message |-> "none", item |-> item]

OAuthError == [message |-> "m1", type |-> "OAuthException", code |-> "190"]

Responses ==
    {FetchFailed("m1"), NotJSON("m2"),
     JSON(Item(OAuthError, "none")), JSON(Item(NoRemoteError, "att1"))}

\* a JavaScript Error: `new Error(message)` has no member but its message
JSError(message) ==
    [name |-> "Error", message |-> message, type |-> "none", code |-> "none"]
NoJSError == [name |-> "none", message |-> "none", type |-> "none", code |-> "none"]

\* what a promise settles with: an object, a string or an error
NoValue == [t |-> "undefined", item |-> NoItem, s |-> "none", e |-> NoJSError]
ItemValue(item) == [t |-> "object", item |-> item, s |-> "none", e |-> NoJSError]
StringValue(str) == [t |-> "string", item |-> NoItem, s |-> str, e |-> NoJSError]
ErrorValue(err) == [t |-> "error", item |-> NoItem, s |-> "none", e |-> err]

NoClientCall ==
    [op |-> "none", args |-> <<Undefined, Undefined, Undefined>>,
     thrown |-> NoError, state |-> "none", sent |-> 0, request |-> NoRequest,
     proxy |-> Undefined, response |-> NoResponse, value |-> NoValue]

\* a call that threw before returning a promise, having issued `sent` requests
Thrown(op, args, err, sent, req) ==
    [NoClientCall EXCEPT !.op = op, !.args = args, !.thrown = err,
                         !.state = "threw", !.sent = sent, !.request = req,
                         !.proxy = lastProxy]

\* a call that returned the promise of one request
Pending(op, args, req) ==
    [NoClientCall EXCEPT !.op = op, !.args = args, !.state = "pending",
                         !.sent = 1, !.request = req, !.proxy = lastProxy]

\* the call throws err
Throw(op, args, err) ==
    /\ last' = Thrown(op, args, err, 0, NoRequest)
    /\ UNCHANGED inflight

\* the call returns the pending promise of request req
Issue(op, args, req) ==
    /\ BagCardinality(inflight) < MaxInFlight
    /\ inflight' = inflight (+) SetToBag({Pending(op, args, req)})
    /\ UNCHANGED last

(***************************************************************************)
(* Client                                                                  *)
(***************************************************************************)
\* new HttpsProxyAgent(`${proxy.hostname}:${proxy.port}`)
HttpsProxyAgent(proxy) ==
    Obj("HttpsProxyAgent", <<Get(proxy, "hostname"), ":", Get(proxy, "port")>>)

\* the agent setProxy(proxy) leaves in this.proxyAgent, given the one it finds
AgentAfterSetProxy(proxy, agent) ==
    IF isNull(proxy) THEN Null
    ELSE IF required(proxy, {"hostname", "port"}) # NoError THEN agent
    ELSE HttpsProxyAgent(proxy)

\* what setProxy(proxy) throws
setProxyThrown(proxy) ==
    IF isNull(proxy) THEN NoError ELSE required(proxy, {"hostname", "port"})

\* Client.constructor
ClientConstructor(token, proxy, platformAPIVersion) ==
    /\ ~client
    /\ LET thrown == FirstError(<<
               oneOf(platformAPIVersion, validPlatformAPIVersions, "API Version"),
               notNull(token, "PAGE_ACCESS_TOKEN"),
               setProxyThrown(proxy)>>)
       IN  IF thrown # NoError
           THEN /\ last' = Thrown("constructor", <<token, proxy, Undefined>>,
                                  thrown, 0, NoRequest)
                /\ UNCHANGED <<client, baseURL, pageAccessToken, proxyAgent,
                               clientArgs, lastProxy>>
           ELSE /\ client' = TRUE
                /\ baseURL' = <<facebookMessengerAPIURL, "/", platformAPIVersion>>
                /\ pageAccessToken' = token
                /\ proxyAgent' = AgentAfterSetProxy(proxy, Null)
                /\ clientArgs' = [token |-> token, version |-> platformAPIVersion]
                /\ lastProxy' = proxy
                /\ UNCHANGED last
    /\ UNCHANGED <<messenger_profile, inflight, sigVars>>

\* a setProxy that returns early on a null proxy without clearing the agent
setProxyKeepsAgent(proxy) ==
    /\ client
    /\ IF setProxyThrown(proxy) # NoError
       THEN /\ last' = Thrown("setProxy", <<proxy, Undefined, Undefined>>,
                              setProxyThrown(proxy), 0, NoRequest)
            /\ UNCHANGED <<proxyAgent, lastProxy>>
       ELSE /\ proxyAgent' = IF isNull(proxy) THEN proxyAgent
                             ELSE HttpsProxyAgent(proxy)
            /\ lastProxy' = proxy
            /\ UNCHANGED last
    /\ UNCHANGED <<client, baseURL, pageAccessToken, messenger_profile,
                   clientArgs, inflight, sigVars>>

\* Client.setProxy
setProxy(proxy) ==
    /\ client
    /\ IF setProxyThrown(proxy) # NoError
       THEN /\ last' = Thrown("setProxy", <<proxy, Undefined, Undefined>>,
                              setProxyThrown(proxy), 0, NoRequest)
            /\ UNCHANGED <<proxyAgent, lastProxy>>
       ELSE /\ proxyAgent' = AgentAfterSetProxy(proxy, proxyAgent)
            /\ lastProxy' = proxy
            /\ UNCHANGED last
    /\ UNCHANGED <<client, baseURL, pageAccessToken, messenger_profile,
                   clientArgs, inflight, sigVars>>

\* Client.proxyFetchFacebook, up to the call of fetch: the request it sends
proxyFetchFacebook(url, body, method) ==
    [url |-> url, method |-> method, body |-> body, agent |-> proxyAgent]

\* Client.proxyFetchFacebook, from fetch's settling on: the state and value
\* its promise settles with
proxyFetchSettled(response) ==
    IF response.kind \in {"fetchFailed", "notJSON"}
    THEN [state |-> "rejected", value |-> ErrorValue(JSError(response.message))]
    ELSE IF response.item.error # NoRemoteError
    THEN [state |-> "rejected",
          value |-> ErrorValue(JSError(response.item.error.message))]
    ELSE [state |-> "resolved", value |-> ItemValue(response.item)]

\* `?access_token=${this.pageAccessToken}` and `&access_token=...`
AccessToken(sep) == <<sep, "access_token=">> \o pageAccessToken.v

\* Client.upload
upload(message) ==
    /\ client
    /\ LET args == <<message, Undefined, Undefined>>
           thrown == oneOf(message.t, AttachmentNames, "attachment.type")
           envelope == <<"{", "message", ":">> \o Stringify(getMessage(message))
                       \o <<"}">>
           url == baseURL \o <<"/me/message_attachments">> \o AccessToken("?")
       IN  IF thrown # NoError THEN Throw("upload", args, thrown)
           ELSE Issue("upload", args,
                      proxyFetchFacebook(url, Str(envelope), "POST"))
    /\ UNCHANGED <<client, baseURL, pageAccessToken, proxyAgent,
                   messenger_profile, clientArgs, lastProxy, sigVars>>

\* Client.sendMessage
sendMessage(message, recipientId, notificationType) ==
    /\ client
    /\ LET args == <<message, recipientId, notificationType>>
           type == IF notificationType = Undefined THEN Str(<<"REGULAR">>)
                   ELSE notificationType
           messageBody == getMessage(message)
           thrown == FirstError(<<
               notNull(recipientId, "recipient.id"),
               notNull(messageBody, "message"),
               oneOf(type.v, {<<"REGULAR">>, <<"SILENT_PUSH">>, <<"NO_PUSH">>},
                     "notification_type")>>)
           envelope == <<"{", "recipient", ":", "{", "id", ":">> \o recipientId.v
                       \o <<"}", ",", "message", ":">> \o Stringify(messageBody)
                       \o <<",", "notification_type", ":">> \o type.v \o <<"}">>
           url == baseURL \o <<"/me/messages">> \o AccessToken("?")
       IN  IF thrown # NoError THEN Throw("sendMessage", args, thrown)
           ELSE Issue("sendMessage", args,
                      proxyFetchFacebook(url, Str(envelope), "POST"))
    /\ UNCHANGED <<client, baseURL, pageAccessToken, proxyAgent,
                   messenger_profile, clientArgs, lastProxy, sigVars>>

\* Client.getUserProfile
getUserProfile(userId, fieldsArg) ==
    /\ client
    /\ LET args == <<userId, fieldsArg, Undefined>>
           fields == IF fieldsArg = Undefined THEN Arr(userProfileFields)
                     ELSE fieldsArg
           thrown == FirstError(<<
               notNull(userId, "USER_ID"),
               isArray(fields, "fields"),
               IF fields.t = "array" /\ Range(fields.v) \subseteq Range(userProfileFields)
               THEN NoError ELSE ValidationError("fields")>>)
           url == baseURL \o <<"/">> \o userId.v \o <<"?", "fields=">>
                  \o Join(fields.v) \o AccessToken("&")
       IN  IF thrown # NoError THEN Throw("getUserProfile", args, thrown)
           ELSE Issue("getUserProfile", args,
                      proxyFetchFacebook(url, Null, "GET"))
    /\ UNCHANGED <<client, baseURL, pageAccessToken, proxyAgent,
                   messenger_profile, clientArgs, lastProxy, sigVars>>

\* a sendAction that posts the envelope before it validates its arguments
sendActionPostsFirst(action, recipientId) ==
    /\ client
    /\ LET args == <<action, recipientId, Undefined>>
           thrown == FirstError(<<
               notNull(recipientId, "recipient.id"),
               notNull(action, "sender_action"),
               oneOf(action.v, {<<"mark_seen">>, <<"typing_on">>, <<"typing_off">>},
                     "sender_action.type")>>)
           envelope == <<"{", "recipient", ":", "{", "id", ":">> \o recipientId.v
                       \o <<"}", ",", "sender_action", ":">> \o action.v \o <<"}">>
           url == baseURL \o <<"/me/messages">> \o AccessToken("?")
           req == proxyFetchFacebook(url, Str(envelope), "POST")
       IN  IF thrown # NoError
           THEN /\ last' = Thrown("sendAction", args, thrown, 1, req)
                /\ UNCHANGED inflight
           ELSE Issue("sendAction", args, req)
    /\ UNCHANGED <<client, baseURL, pageAccessToken, proxyAgent,
                   messenger_profile, clientArgs, lastProxy, sigVars>>

\* Client.sendAction
sendAction(action, recipientId) ==
    /\ client
    /\ LET args == <<action, recipientId, Undefined>>
           thrown == FirstError(<<
               notNull(recipientId, "recipient.id"),
               notNull(action, "sender_action"),
               oneOf(action.v, {<<"mark_seen">>, <<"typing_on">>, <<"typing_off">>},
                     "sender_action.type")>>)
           envelope == <<"{", "recipient", ":", "{", "id", ":">> \o recipientId.v
                       \o <<"}", ",", "sender_action", ":">> \o action.v \o <<"}">>
           url == baseURL \o <<"/me/messages">> \o AccessToken("?")
       IN  IF thrown # NoError THEN Throw("sendAction", args, thrown)
           ELSE Issue("sendAction", args,
                      proxyFetchFacebook(url, Str(envelope), "POST"))
    /\ UNCHANGED <<client, baseURL, pageAccessToken, proxyAgent,
                   messenger_profile, clientArgs, lastProxy, sigVars>>

\* a validateMessengerProfile that keeps a profile it already holds
validateMessengerProfileKeeps(profile, fields) ==
    LET isProfile == oneOf(profile.t, {"MessengerProfile"}, "Messenger Profile")
        object == IF messenger_profile = Undefined THEN toObject(profile)
                  ELSE messenger_profile
        allowed == IF fields THEN {"fields"} ELSE validProperties
    IN  IF isProfile # NoError
        THEN [thrown |-> isProfile, messenger_profile |-> messenger_profile]
        ELSE [thrown |-> IF Range(Keys(object)) \subseteq allowed THEN NoError
                         ELSE ValidationError("messenger_profile"),
              messenger_profile |-> object]

\* Client.validateMessengerProfile: what it throws, and this.messenger_profile
\* as it leaves it
validateMessengerProfile(profile, fields) ==
    LET isProfile == oneOf(profile.t, {"MessengerProfile"}, "Messenger Profile")
        object == toObject(profile)
        allowed == IF fields THEN {"fields"} ELSE validProperties
    IN  IF isProfile # NoError
        THEN [thrown |-> isProfile, messenger_profile |-> messenger_profile]
        ELSE [thrown |-> IF Range(Keys(object)) \subseteq allowed THEN NoError
                         ELSE ValidationError("messenger_profile"),
              messenger_profile |-> object]

\* Client.setMessengerProfile
setMessengerProfile(profile) ==
    /\ client
    /\ LET args == <<profile, Undefined, Undefined>>
           validated == validateMessengerProfile(profile, FALSE)
           url == baseURL \o <<"/me/messenger_profile">> \o AccessToken("?")
           body == Str(Stringify(validated.messenger_profile))
       IN  /\ messenger_profile' = validated.messenger_profile
           /\ IF validated.thrown # NoError
              THEN Throw("setMessengerProfile", args, validated.thrown)
              ELSE Issue("setMessengerProfile", args,
                         proxyFetchFacebook(url, body, "POST"))
    /\ UNCHANGED <<client, baseURL, pageAccessToken, proxyAgent,
                   clientArgs, lastProxy, sigVars>>

\* Client.getMessengerProfile
getMessengerProfile(profile) ==
    /\ client
    /\ LET args == <<profile, Undefined, Undefined>>
           validated == validateMessengerProfile(profile, TRUE)
           url == baseURL \o <<"/me/messenger_profile", "?", "fields=",
                                Get(validated.messenger_profile, "fields")>>
                  \o AccessToken("&")
       IN  /\ messenger_profile' = validated.messenger_profile
           /\ IF validated.thrown # NoError
              THEN Throw("getMessengerProfile", args, validated.thrown)
              ELSE Issue("getMessengerProfile", args,
                         proxyFetchFacebook(url, Null, "GET"))
    /\ UNCHANGED <<client, baseURL, pageAccessToken, proxyAgent,
                   clientArgs, lastProxy, sigVars>>

\* Client.deleteMessengerProfile
deleteMessengerProfile(profile) ==
    /\ client
    /\ LET args == <<profile, Undefined, Undefined>>
           validated == validateMessengerProfile(profile, TRUE)
           url == baseURL \o <<"/me/messenger_profile">> \o AccessToken("?")
           body == Str(Stringify(validated.messenger_profile))
       IN  /\ messenger_profile' = validated.messenger_profile
           /\ IF validated.thrown # NoError
              THEN Throw("deleteMessengerProfile", args, validated.thrown)
              ELSE Issue("deleteMessengerProfile", args,
                         proxyFetchFacebook(url, body, "DELETE"))
    /\ UNCHANGED <<client, baseURL, pageAccessToken, proxyAgent,
                   clientArgs, lastProxy, sigVars>>

\* the response to the request of call c arrives: the promise chains of
\* proxyFetchFacebook and of the operation settle
Respond(c, response) ==
    /\ BagIn(c, inflight)
    /\ LET settled == proxyFetchSettled(response)
           value == IF c.op = "upload" /\ settled.state = "resolved"
                    THEN StringValue(settled.value.item.attachment_id)
                    ELSE settled.value
       IN  last' = [c EXCEPT !.state = settled.state, !.value = value,
                             !.response = response]
    /\ inflight' = inflight (-) SetToBag({c})
    /\ UNCHANGED <<client, baseURL, pageAccessToken, proxyAgent,
                   messenger_profile, clientArgs, lastProxy, sigVars>>

(***************************************************************************)
(* Inputs of the client.                                                   *)
(***************************************************************************)
Tokens == {Str(<<"T1">>), Null}
Versions == {"v2.8", "v1.0"}
Proxy1 == Obj("Object", <<"hostname", "h1", "port", "8080">>)
NoPortProxy == Obj("Object", <<"hostname", "h1">>)
Proxies == {Null, Proxy1, NoPortProxy}

TextMessage == Obj("TextMessage", <<"text", "hello">>)
Image == Obj("ImageAttachment", <<"attachment", "image1">>)
Id1 == Str(<<"id1">>)
\* (recipientId, notificationType) of the sendMessage calls
SendMessageArgs == {<<Id1, Undefined>>, <<Null, Undefined>>, <<Id1, Str(<<"LOUD">>)>>}
\* (action, recipientId) of the sendAction calls
SendActionArgs ==
    {<<Str(<<"typing_on">>), Id1>>, <<Str(<<"typing_on">>), Null>>,
     <<Str(<<"wave">>), Id1>>}
\* (userId, fields) of the getUserProfile calls
GetUserProfileArgs ==
    {<<Id1, Undefined>>, <<Null, Undefined>>,
     <<Id1, Arr(<<"first_name", "age">>)>>, <<Id1, Str(<<"first_name">>)>>}

GreetingProfile == Obj("MessengerProfile", <<"greeting", "hi">>)
FieldsProfile1 == Obj("MessengerProfile", <<"fields", "greeting">>)
FieldsProfile2 == Obj("MessengerProfile", <<"fields", "get_started">>)
PlainObject == Obj("Object", <<"greeting", "hi">>)
\* the profiles each profile operation is called with
SetProfiles == {GreetingProfile, PlainObject}
GetProfiles == {FieldsProfile1, GreetingProfile}
DeleteProfiles == {FieldsProfile2, GreetingProfile}

InitClient ==
    /\ client = FALSE
    /\ baseURL = <<>>
    /\ pageAccessToken = Undefined
    /\ proxyAgent = Undefined
    /\ messenger_profile = Undefined
    /\ clientArgs = [token |-> Undefined, version |-> "none"]
    /\ lastProxy = Undefined
    /\ inflight = EmptyBag
    /\ last = NoClientCall

InitVerifier ==
    /\ appSecret = [v \in Verifiers |-> NoInstance]
    /\ ctorArg = [v \in Verifiers |-> NotCalled]
    /\ ctorThrown = [v \in Verifiers |-> NoError]
    /\ first = NoCall
    /\ latest = NoCall

InitSig == InitVerifier /\ InitClient

NextSig ==
    \/ \E v \in Verifiers : \E s \in SecretArgs(v) : Constructor(v, s)
    \/ \E v \in Verifiers, b \in Bodies :
          \E h \in Headers(ctorArg[v].v, b) : Validate(v, h, b)

SpecSig == InitSig /\ [][NextSig]_vars

InitCli == InitVerifier /\ InitClient

NextClient ==
    \/ \E t \in Tokens, p \in Proxies, ver \in Versions :
          ClientConstructor(t, p, ver)
    \/ \E p \in Proxies : setProxy(p)
    \/ \E m \in {TextMessage, Image} : upload(m)
    \/ \E a \in SendMessageArgs : sendMessage(TextMessage, a[1], a[2])
    \/ \E a \in GetUserProfileArgs : getUserProfile(a[1], a[2])
    \/ \E a \in SendActionArgs : sendAction(a[1], a[2])
    \/ \E p \in SetProfiles : setMessengerProfile(p)
    \/ \E p \in GetProfiles : getMessengerProfile(p)
    \/ \E p \in DeleteProfiles : deleteMessengerProfile(p)
    \/ \E c \in BagToSet(inflight), r \in Responses : Respond(c, r)

SpecClient == InitCli /\ [][NextClient]_vars

(***************************************************************************)
(* Claims about the signature verifier, checked under SpecSig.             *)
(***************************************************************************)
\* the validate calls on record
Calls == {first, latest} \ {NoCall}

\* the signature the platform computes for body b under secret s
Signed(s, b) == Str(SignatureFor("sha1", s.v, b))

\* C1: a validate call whose X-Hub-Signature header is the signature computed
\* for its body under the verifier's non-empty secret returns normally,
\* raising no error.
C1_MatchingSignatureReturns ==
    \A c \in Calls :
        (~Falsy(ctorArg[c.v]) /\ c.header = Signed(ctorArg[c.v], c.body))
            => c.result = NoError

\* C2: a validate call whose declared signature differs from the signature
\* computed over its body with the verifier's secret fails with the invalid
\* signature error, and is never reported valid.
C2_MismatchRejected ==
    \A c \in Calls :
        c.header # Signed(ctorArg[c.v], c.body)
            => c.result = InvalidSignatureError

\* a call carrying the signature of a body that differs from its own in one
\* bit, or a signature one bit of whose digest was changed, was rejected
C2_Witness ==
    /\ first # NoCall /\ latest # NoCall
    /\ \E b \in BitFlips(first.body) :
          /\ first.header = Signed(ctorArg[first.v], b)
          /\ first.header # Signed(ctorArg[first.v], first.body)
    /\ first.result = InvalidSignatureError
    /\ \E d \in DigestFlips(HexDigest("sha1", ctorArg[latest.v].v, latest.body)) :
          latest.header = Str(AlgoName("sha1") \o <<"=">> \o d)
    /\ latest.result = InvalidSignatureError

\* the header names an algorithm other than the supported one
OtherAlgorithm(h) ==
    /\ h.t = "string"
    /\ AlgoPrefix(h.v) # <<>>
    /\ AlgoPrefix(h.v) # AlgoName("sha1")

\* C3: a validate call whose header is missing, is the empty string, or
\* carries an algorithm prefix other than sha1 fails with the invalid
\* signature error, also when the digest after the prefix is the correct
\* digest of the body under that other algorithm.
C3_MissingEmptyOrOtherAlgorithmRejected ==
    \A c \in Calls :
        (c.header = Undefined \/ c.header = Str(<<>>) \/ OtherAlgorithm(c.header))
            => c.result = InvalidSignatureError

\* a missing header was rejected, and so was a correct SHA-256 signature
C3_Witness ==
    /\ first # NoCall /\ latest # NoCall
    /\ first.header = Undefined
    /\ first.result = InvalidSignatureError
    /\ latest.header = Str(SignatureFor("sha256", ctorArg[latest.v].v, latest.body))
    /\ latest.result = InvalidSignatureError

\* C4: constructing a verifier with an absent (null, undefined) or empty
\* secret throws a ConfigurationError and yields no instance, so that no
\* validate call ever computes an HMAC keyed by such a secret.
C4_AbsentOrEmptySecretRefused ==
    /\ \A v \in Verifiers :
          Falsy(ctorArg[v]) =>
              /\ ctorThrown[v].name = "ConfigurationError"
              /\ appSecret[v] = NoInstance
    /\ \A c \in Calls : c.key.t = "string" /\ c.key.v # <<>>

\* one construction was refused for an empty secret, another for a null
\* one, and no call could be made
C4_Witness ==
    /\ ctorArg["v1"] = Str(<<>>)
    /\ ctorThrown["v1"].name = "ConfigurationError"
    /\ ctorArg["v2"] = Null
    /\ ctorThrown["v2"].name = "ConfigurationError"
    /\ ~ENABLED NextSig

\* C5: validate mutates nothing: every instance's appSecret is the value
\* its constructor was given, whatever calls ran, and two validate calls on
\* one verifier with the same header and body have the same outcome.
C5_ValidateIsPure ==
    /\ \A v \in Verifiers :
          appSecret[v] # NoInstance => appSecret[v] = ctorArg[v]
    /\ (/\ first # NoCall /\ latest # NoCall
        /\ first.v = latest.v
        /\ first.header = latest.header
        /\ first.body = latest.body)
            => first.result = latest.result

\* the same matching request was validated twice, with calls on the other
\* verifier possible in between
C5_Witness ==
    /\ first # NoCall /\ latest # NoCall
    /\ first.v = latest.v
    /\ first.header = latest.header /\ first.body = latest.body
    /\ first.header = Signed(ctorArg[first.v], first.body)
    /\ first.result = latest.result
    /\ appSecret[first.v] = ctorArg[first.v]

\* the outcome of one validate call run alone on a verifier built with s
AloneOutcome(s, header, body) ==
    IF header = Signed(s, body) THEN LogReferenceError
    ELSE InvalidSignatureError

\* C6: whatever the order of validate calls on one or several verifiers,
\* each call is keyed by the secret of its own instance and its outcome is
\* the outcome it would have had when run alone.
C6_CallsAreIndependent ==
    \A c \in Calls :
        /\ c.key = ctorArg[c.v]
        /\ c.result = AloneOutcome(ctorArg[c.v], c.header, c.body)

\* the same request went to two verifiers with different secrets: the one
\* whose secret signed it matched, the other rejected it
C6_Witness ==
    /\ first # NoCall /\ latest # NoCall
    /\ first.v # latest.v
    /\ ctorArg[first.v] # ctorArg[latest.v]
    /\ first.header = latest.header /\ first.body = latest.body
    /\ first.header = Signed(ctorArg[first.v], first.body)
    /\ first.result = LogReferenceError
    /\ latest.result = InvalidSignatureError

(***************************************************************************)
(* Claims about the client, checked under SpecClient.                      *)
(***************************************************************************)
\* the client calls on record: those in flight and the one that ended last
ClientCalls == (BagToSet(inflight) \cup {last}) \ {NoClientCall}

\* the value of the query parameter `key` of url: the pieces after the key
\* up to the next "&"
QueryParam(url, key) ==
    LET q == {i \in 1..Len(url) : url[i] = "?"}
        at == {i \in 2..Len(url) :
                 /\ url[i] = key
                 /\ url[i - 1] \in {"?", "&"}
                 /\ \E j \in q : j < i}
    IN  IF at = {} THEN <<>>
        ELSE LET i == CHOOSE k \in at : \A j \in at : k <= j
                 stops == {k \in (i + 1)..Len(url) : url[k] = "&"} \cup {Len(url) + 1}
                 stop == CHOOSE k \in stops : \A j \in stops : k <= j
             IN  SubSeq(url, i + 1, stop - 1)

StartsWith(url, prefix) ==
    Len(url) >= Len(prefix) /\ SubSeq(url, 1, Len(prefix)) = prefix

\* C7: when the response body is JSON with an `error` member the promise of
\* the call is rejected with an error that carries the content of the remote
\* error object and differs from every rejection a transport failure
\* causes; a JSON response without `error` resolves with the parsed JSON
\* (upload: with its attachment_id); a transport failure rejects.
C7_RemoteErrorIsStructured ==
    last.state \in {"resolved", "rejected"} =>
        IF last.response.kind = "json" /\ last.response.item.error # NoRemoteError
        THEN /\ last.state = "rejected"
             /\ last.value.t = "error"
             /\ last.value.e.message = last.response.item.error.message
             /\ last.value.e.type = last.response.item.error.type
             /\ last.value.e.code = last.response.item.error.code
             /\ \A r \in Responses :
                   r.kind # "json" => proxyFetchSettled(r).value # last.value
        ELSE IF last.response.kind = "json"
        THEN /\ last.state = "resolved"
             /\ last.value = IF last.op = "upload"
                             THEN StringValue(last.response.item.attachment_id)
                             ELSE ItemValue(last.response.item)
        ELSE last.state = "rejected"

\* the agent a request is sent with when `proxy` is the proxy last set
ExpectedAgent(proxy) ==
    IF isNull(proxy) THEN Null
    ELSE Obj("HttpsProxyAgent", <<Get(proxy, "hostname"), ":", Get(proxy, "port")>>)

ValidatedOps == {"sendMessage", "sendAction", "getUserProfile", "upload"}

\* the arguments of call c fail a validation of its operation
ArgsInvalid(c) ==
    CASE c.op = "sendMessage" ->
            \/ isNull(c.args[2])
            \/ /\ c.args[3] # Undefined
               /\ c.args[3].v \notin {<<"REGULAR">>, <<"SILENT_PUSH">>, <<"NO_PUSH">>}
      [] c.op = "sendAction" ->
            \/ isNull(c.args[2])
            \/ c.args[1].v \notin {<<"mark_seen">>, <<"typing_on">>, <<"typing_off">>}
      [] c.op = "getUserProfile" ->
            \/ isNull(c.args[1])
            \/ /\ c.args[2] # Undefined
               /\ \/ c.args[2].t # "array"
                  \/ \E f \in Range(c.args[2].v) : f \notin Range(userProfileFields)
      [] c.op = "upload" -> c.args[1].t \notin AttachmentNames
      [] OTHER -> FALSE

\* C9: in sendMessage, sendAction, getUserProfile and upload validation
\* comes before any request: a call whose arguments fail a validation throws
\* and issues no request, and a call whose arguments pass issues exactly one
\* request, also after its promise has settled (no retry).
C9_ValidationBeforeRequest ==
    \A c \in ClientCalls :
        c.op \in ValidatedOps =>
            IF ArgsInvalid(c)
            THEN c.state = "threw" /\ c.sent = 0 /\ c.request = NoRequest
            ELSE c.state # "threw" /\ c.sent = 1 /\ c.request # NoRequest

\* a call with an unknown sender action threw without a request while the
\* request of a valid call was pending
C9_Witness ==
    /\ last.op = "sendAction" /\ last.state = "threw"
    /\ last.args[1] = Str(<<"wave">>) /\ ~isNull(last.args[2])
    /\ last.sent = 0
    /\ \E c \in BagToSet(inflight) : c.op = "getUserProfile" /\ c.sent = 1

ProfileOps ==
    {"setMessengerProfile", "getMessengerProfile", "deleteMessengerProfile"}

\* C10: the body (for getMessengerProfile the fields query) of the request a
\* profile call issues is derived from the profile passed to that call,
\* whatever calls came before and whatever requests are still pending.
C10_RequestFromOwnProfile ==
    \A c \in ClientCalls :
        (c.op \in ProfileOps /\ c.sent > 0) =>
            IF c.op = "getMessengerProfile"
            THEN QueryParam(c.request.url, "fields=") = <<Get(c.args[1], "fields")>>
            ELSE c.request.body = Str(<<"{">> \o Members(c.args[1].v) \o <<"}">>)

\* two profile requests are pending and a later profile call has failed its
\* validation after overwriting this.messenger_profile
C10_Witness ==
    /\ last.op = "setMessengerProfile" /\ last.state = "threw"
    /\ messenger_profile = toObject(last.args[1])
    /\ \E c, d \in BagToSet(inflight) :
          /\ c.op = "getMessengerProfile"
          /\ d.op = "deleteMessengerProfile"
          /\ c.args[1] # d.args[1]
          /\ messenger_profile # toObject(c.args[1])
          /\ messenger_profile # toObject(d.args[1])
====
